---- MODULE Spec2Model ----
(***************************************************************************)
(* State machine of the Reader component (src/components/reader.tsx).      *)
(* A chapter is represented by chapter.verses: either Undefined (the       *)
(* fetched object has no verses array) or the number of verses it holds;   *)
(* a verse is identified by its zero-based position.  All indices are the  *)
(* zero-based indices of the source.                                       *)
(*                                                                         *)
(* Spec is the whole component.  SpecReading and SpecHighlighting are the  *)
(* sessions in which the user leaves the highlight control, respectively   *)
(* the bookmark controls and the slider, untouched; the handlers they run  *)
(* are the same actions.                                                   *)
(***************************************************************************)
EXTENDS Integers, Sequences, FiniteSets, TLC

\* ---------------------------------------------------------------- bounds
MaxChapters == 2
MaxVerses == 2
MaxBookmarks == 2
MaxHighlights == 2

\* ------------------------------------------------------ program constants
InitialFontSize == 16
SliderMin == 12
SliderMax == 24

\* chapter.verses === undefined: a value outside the lengths 0 .. MaxVerses
Undefined == MaxVerses + 1

\* values the slider hands to onValueChange in the model
SliderValues == {SliderMin, InitialFontSize, SliderMax}

\* texts handed to addHighlight; the empty string included
Texts == {"", "om"}

ToastLoadFailed == "Failed to load chapters. Please try again later."
ToastBookmarkRemoved == "Bookmark removed"
ToastBookmarkAdded == "Bookmark added"
ToastHighlightAdded == "Highlight added"
NoToast == "none"

VARIABLES
  chapters,        \* useState<Chapter[]>([])  : sequence of verses-lengths
  currentChapter,  \* useState(0)
  currentVerse,    \* useState(0)
  fontSize,        \* useState(16)
  bookmarks,       \* useState<Bookmark[]>([])
  highlights,      \* useState<Highlight[]>([])
  isLoading,       \* useState(true)
  fetchPc,         \* position of fetchChapters: idle, awaitFetch, awaitJson, done
  fetchCalls,      \* number of calls of fetchChapters
  fetchPromise,    \* promise returned by fetchChapters: none, pending, fulfilled, rejected
  consoleErrors,   \* number of console.error calls
  lastToast,       \* most recent toast raised
  lastOp,          \* history: the operation that made the last step
  walk,            \* history: handleNextVerse calls made in a row from cursor (0,0), -1 when not tracked
  toggleRun,       \* history: toggleBookmark calls made in a row (0, 1, 2)
  toggleBase       \* history: bookmark list before the first toggle of the current pair

vars == <<chapters, currentChapter, currentVerse, fontSize, bookmarks, highlights,
          isLoading, fetchPc, fetchCalls, fetchPromise, consoleErrors, lastToast,
          lastOp, walk, toggleRun, toggleBase>>

\* ------------------------------------------------------------ input sets
VersesValues == {Undefined} \cup (0 .. MaxVerses)

RECURSIVE SeqsUpTo(_, _)
SeqsUpTo(S, n) ==
  IF n = 0 THEN {<<>>}
  ELSE LET shorter == SeqsUpTo(S, n - 1)
       IN  shorter \cup {Append(s, x) : s \in {t \in shorter : Len(t) = n - 1}, x \in S}

\* the JSON arrays response.json() can resolve to
ChapterLists == SeqsUpTo(VersesValues, MaxChapters)

\* --------------------------------------------------------------- helpers
\* chapters[i]?.verses?.length ?? dflt
VersesLength(chs, i, dflt) ==
  IF i >= 0 /\ i < Len(chs) /\ chs[i + 1] # Undefined THEN chs[i + 1] ELSE dflt

\* the cursor handleNextVerse sets, as <<currentChapter, currentVerse>>
NextCursorNoGuard(chs, c, v) ==
  IF v < VersesLength(chs, c, 0) - 1 THEN <<c, v + 1>>
  ELSE IF c # Len(chs) - 1 THEN <<c + 1, 0>>
  ELSE <<c, v>>

NextCursorOffByOne(chs, c, v) ==
  IF Len(chs) = 0 THEN <<c, v>>
  ELSE IF v < VersesLength(chs, c, 0) THEN <<c, v + 1>>
  ELSE IF c < Len(chs) - 1 THEN <<c + 1, 0>>
  ELSE <<c, v>>

NextCursorStaleDeps(chs, c, v) ==
  IF Len(chs) = 0 THEN <<c, v>>
  ELSE IF 0 < VersesLength(chs, 0, 0) - 1 THEN <<0, 1>>
  ELSE IF 0 < Len(chs) - 1 THEN <<1, 0>>
  ELSE <<c, v>>

NextCursor(chs, c, v) ==
  IF Len(chs) = 0 THEN <<c, v>>
  ELSE IF v < VersesLength(chs, c, 0) - 1 THEN <<c, v + 1>>
  ELSE IF c < Len(chs) - 1 THEN <<c + 1, 0>>
  ELSE <<c, v>>

\* the cursor handlePreviousVerse sets
PrevCursorFirstVerse(chs, c, v) ==
  IF Len(chs) = 0 THEN <<c, v>>
  ELSE IF v > 0 THEN <<c, v - 1>>
  ELSE IF c > 0 THEN <<c - 1, 0>>
  ELSE <<c, v>>

PrevCursor(chs, c, v) ==
  IF Len(chs) = 0 THEN <<c, v>>
  ELSE IF v > 0 THEN <<c, v - 1>>
  ELSE IF c > 0 THEN <<c - 1, VersesLength(chs, c - 1, 1) - 1>>
  ELSE <<c, v>>

\* bookmarks.findIndex(b => b.chapter === c && b.verse === v), zero-based, -1 when absent
FindIndex(bms, c, v) ==
  LET hits == {i \in 1 .. Len(bms) : bms[i].chapter = c /\ bms[i].verse = v}
  IN  IF hits = {} THEN -1
      ELSE (CHOOSE i \in hits : \A j \in hits : i <= j) - 1

\* bookmarks.filter((_, index) => index !== k), k zero-based
FilterOutIndex(bms, k) ==
  [i \in 1 .. (Len(bms) - 1) |-> IF i <= k THEN bms[i] ELSE bms[i + 1]]

\* the list toggleBookmark hands to setBookmarks
ToggleBookmarksAlwaysAppend(bms, c, v) ==
  Append(bms, [chapter |-> c, verse |-> v])

ToggleBookmarksRemoveLast(bms, c, v) ==
  IF FindIndex(bms, c, v) # -1
    THEN FilterOutIndex(bms, Len(bms) - 1)
    ELSE Append(bms, [chapter |-> c, verse |-> v])

ToggleBookmarksChapterOnly(bms, c, v) ==
  LET hits == {i \in 1 .. Len(bms) : bms[i].chapter = c}
  IN  IF hits # {}
        THEN FilterOutIndex(bms, (CHOOSE i \in hits : \A j \in hits : i <= j) - 1)
        ELSE Append(bms, [chapter |-> c, verse |-> v])

ToggleBookmarks(bms, c, v) ==
  IF FindIndex(bms, c, v) # -1
    THEN FilterOutIndex(bms, FindIndex(bms, c, v))
    ELSE Append(bms, [chapter |-> c, verse |-> v])

\* the list addHighlight hands to setHighlights
AddHighlightDedup(hls, c, v, text) ==
  IF \E i \in 1 .. Len(hls) : hls[i] = [chapter |-> c, verse |-> v, text |-> text]
    THEN hls
    ELSE Append(hls, [chapter |-> c, verse |-> v, text |-> text])

AddHighlightList(hls, c, v, text) ==
  Append(hls, [chapter |-> c, verse |-> v, text |-> text])

\* isLoading after the try block of fetchChapters
LoadingAfterTryStuck == TRUE

LoadingAfterTry == FALSE

\* isLoading after the catch block of fetchChapters
LoadingAfterCatchStuck == TRUE

LoadingAfterCatch == FALSE

\* currentChapterData && currentVerseData of the render
CurrentVerseData ==
  /\ currentChapter >= 0 /\ currentChapter < Len(chapters)
  /\ currentVerse >= 0
  /\ currentVerse < VersesLength(chapters, currentChapter, 0)

\* disabled of the Previous button
PreviousDisabled == currentChapter = 0 /\ currentVerse = 0

\* disabled of the Next button
NextDisabledLastChapter == currentChapter = Len(chapters) - 1

NextDisabled ==
  /\ currentChapter = Len(chapters) - 1
  /\ currentVerse = VersesLength(chapters, currentChapter, 0) - 1

\* the branch <main> renders
View ==
  IF isLoading THEN "Loading..."
  ELSE IF Len(chapters) > 0 /\ CurrentVerseData THEN "verse"
  ELSE "No content available. Please try again later."

\* ------------------------------------------------------------------ Init
Init ==
  /\ chapters = <<>>
  /\ currentChapter = 0
  /\ currentVerse = 0
  /\ fontSize = InitialFontSize
  /\ bookmarks = <<>>
  /\ highlights = <<>>
  /\ isLoading = TRUE
  /\ fetchPc = "idle"
  /\ fetchCalls = 0
  /\ fetchPromise = "none"
  /\ consoleErrors = 0
  /\ lastToast = NoToast
  /\ lastOp = "init"
  /\ walk = -1
  /\ toggleRun = 0
  /\ toggleBase = <<>>

\* history bookkeeping shared by the actions
WalkLimit == MaxChapters * MaxVerses + 1

WalkAfterMove(c, v) == IF c = 0 /\ v = 0 THEN 0 ELSE -1

NoToggle == toggleRun' = 0 /\ toggleBase' = <<>>

\* --------------------------------------------------------------- actions
\* useEffect(() => { fetchChapters(); }, []) : runs once, after mount
UseEffect ==
  /\ fetchPc = "idle"
  /\ fetchPc' = "awaitFetch"
  /\ fetchCalls' = fetchCalls + 1
  /\ fetchPromise' = "pending"
  /\ lastOp' = "useEffect"
  /\ NoToggle
  /\ UNCHANGED <<chapters, currentChapter, currentVerse, fontSize, bookmarks,
                 highlights, isLoading, consoleErrors, lastToast, walk>>

\* await fetch(...) resolves
FetchResolves ==
  /\ fetchPc = "awaitFetch"
  /\ fetchPc' = "awaitJson"
  /\ lastOp' = "fetchResolves"
  /\ NoToggle
  /\ UNCHANGED <<chapters, currentChapter, currentVerse, fontSize, bookmarks,
                 highlights, isLoading, fetchCalls, fetchPromise, consoleErrors,
                 lastToast, walk>>

\* catch (error) { console.error; setIsLoading(false); toast.error }
Catch ==
  /\ consoleErrors' = consoleErrors + 1
  /\ isLoading' = LoadingAfterCatch
  /\ lastToast' = ToastLoadFailed
  /\ fetchPc' = "done"
  /\ fetchPromise' = "fulfilled"
  /\ NoToggle
  /\ UNCHANGED <<chapters, currentChapter, currentVerse, fontSize, bookmarks,
                 highlights, fetchCalls, walk>>

\* await fetch(...) rejects
FetchRejects ==
  /\ fetchPc = "awaitFetch"
  /\ lastOp' = "fetchRejects"
  /\ Catch

\* await response.json() rejects
JsonRejects ==
  /\ fetchPc = "awaitJson"
  /\ lastOp' = "jsonRejects"
  /\ Catch

\* await response.json() resolves: setChapters(data); setIsLoading(false)
JsonResolves ==
  /\ fetchPc = "awaitJson"
  /\ \E data \in ChapterLists :
       /\ chapters' = data
       /\ walk' = IF Len(data) > 0 /\ currentChapter = 0 /\ currentVerse = 0 THEN 0 ELSE -1
  /\ isLoading' = LoadingAfterTry
  /\ fetchPc' = "done"
  /\ fetchPromise' = "fulfilled"
  /\ lastOp' = "jsonResolves"
  /\ NoToggle
  /\ UNCHANGED <<currentChapter, currentVerse, fontSize, bookmarks, highlights,
                 fetchCalls, consoleErrors, lastToast>>

HandleNextVerse ==
  /\ currentChapter' = NextCursor(chapters, currentChapter, currentVerse)[1]
  /\ currentVerse' = NextCursor(chapters, currentChapter, currentVerse)[2]
  /\ walk' = IF walk < 0 THEN -1 ELSE IF walk < WalkLimit THEN walk + 1 ELSE WalkLimit
  /\ lastOp' = "handleNextVerse"
  /\ NoToggle
  /\ UNCHANGED <<chapters, fontSize, bookmarks, highlights, isLoading, fetchPc,
                 fetchCalls, fetchPromise, consoleErrors, lastToast>>

HandlePreviousVerse ==
  /\ currentChapter' = PrevCursor(chapters, currentChapter, currentVerse)[1]
  /\ currentVerse' = PrevCursor(chapters, currentChapter, currentVerse)[2]
  /\ walk' = IF Len(chapters) > 0 THEN WalkAfterMove(currentChapter', currentVerse') ELSE -1
  /\ lastOp' = "handlePreviousVerse"
  /\ NoToggle
  /\ UNCHANGED <<chapters, fontSize, bookmarks, highlights, isLoading, fetchPc,
                 fetchCalls, fetchPromise, consoleErrors, lastToast>>

ToggleBookmark ==
  /\ FindIndex(bookmarks, currentChapter, currentVerse) # -1 \/ Len(bookmarks) < MaxBookmarks
  /\ bookmarks' = ToggleBookmarks(bookmarks, currentChapter, currentVerse)
  /\ lastToast' = IF FindIndex(bookmarks, currentChapter, currentVerse) # -1
                    THEN ToastBookmarkRemoved ELSE ToastBookmarkAdded
  /\ lastOp' = "toggleBookmark"
  /\ IF toggleRun = 1
       THEN toggleRun' = 2 /\ toggleBase' = toggleBase
       ELSE toggleRun' = 1 /\ toggleBase' = bookmarks
  /\ UNCHANGED <<chapters, currentChapter, currentVerse, fontSize, highlights,
                 isLoading, fetchPc, fetchCalls, fetchPromise, consoleErrors, walk>>

AddHighlight ==
  /\ Len(highlights) < MaxHighlights
  /\ \E text \in Texts :
       highlights' = AddHighlightList(highlights, currentChapter, currentVerse, text)
  /\ lastToast' = ToastHighlightAdded
  /\ lastOp' = "addHighlight"
  /\ NoToggle
  /\ UNCHANGED <<chapters, currentChapter, currentVerse, fontSize, bookmarks,
                 isLoading, fetchPc, fetchCalls, fetchPromise, consoleErrors, walk>>

\* onClick of a button of the bookmark list
JumpToBookmarkAndRemove ==
  /\ \E index \in 1 .. Len(bookmarks) :
       /\ currentChapter' = bookmarks[index].chapter
       /\ currentVerse' = bookmarks[index].verse
       /\ bookmarks' = FilterOutIndex(bookmarks, index - 1)
  /\ walk' = IF Len(chapters) > 0 THEN WalkAfterMove(currentChapter', currentVerse') ELSE -1
  /\ lastOp' = "jumpToBookmark"
  /\ NoToggle
  /\ UNCHANGED <<chapters, fontSize, highlights, isLoading, fetchPc,
                 fetchCalls, fetchPromise, consoleErrors, lastToast>>

JumpToBookmark ==
  /\ \E index \in 1 .. Len(bookmarks) :
       /\ currentChapter' = bookmarks[index].chapter
       /\ currentVerse' = bookmarks[index].verse
  /\ walk' = IF Len(chapters) > 0 THEN WalkAfterMove(currentChapter', currentVerse') ELSE -1
  /\ lastOp' = "jumpToBookmark"
  /\ NoToggle
  /\ UNCHANGED <<chapters, fontSize, bookmarks, highlights, isLoading, fetchPc,
                 fetchCalls, fetchPromise, consoleErrors, lastToast>>

\* onValueChange of the slider
SetFontSize ==
  /\ \E value \in SliderValues : fontSize' = value
  /\ lastOp' = "setFontSize"
  /\ NoToggle
  /\ UNCHANGED <<chapters, currentChapter, currentVerse, bookmarks, highlights,
                 isLoading, fetchPc, fetchCalls, fetchPromise, consoleErrors,
                 lastToast, walk>>

Next ==
  \/ UseEffect
  \/ FetchResolves
  \/ FetchRejects
  \/ JsonRejects
  \/ JsonResolves
  \/ HandleNextVerse
  \/ HandlePreviousVerse
  \/ ToggleBookmark
  \/ AddHighlight
  \/ JumpToBookmark
  \/ SetFontSize

Spec == Init /\ [][Next]_vars

\* a session in which addHighlight is never called: highlights stays []
NextReading ==
  \/ UseEffect
  \/ FetchResolves
  \/ FetchRejects
  \/ JsonRejects
  \/ JsonResolves
  \/ HandleNextVerse
  \/ HandlePreviousVerse
  \/ ToggleBookmark
  \/ JumpToBookmark
  \/ SetFontSize

SpecReading == Init /\ [][NextReading]_vars

\* a session in which no bookmark is toggled and the slider is not moved
NextHighlighting ==
  \/ UseEffect
  \/ FetchResolves
  \/ FetchRejects
  \/ JsonRejects
  \/ JsonResolves
  \/ HandleNextVerse
  \/ HandlePreviousVerse
  \/ AddHighlight

SpecHighlighting == Init /\ [][NextHighlighting]_vars

\* the fetch and the navigation alone; the effect runs after the mount and each
\* awaited promise settles
NextLoading ==
  \/ UseEffect
  \/ FetchResolves
  \/ FetchRejects
  \/ JsonRejects
  \/ JsonResolves
  \/ HandleNextVerse
  \/ HandlePreviousVerse

SpecLoading ==
  /\ Init
  /\ [][NextLoading]_vars
  /\ WF_vars(UseEffect)
  /\ WF_vars(FetchResolves \/ FetchRejects)
  /\ WF_vars(JsonResolves \/ JsonRejects)

\* ---------------------------------------------------------------- claims
RECURSIVE TotalVerses(_)
TotalVerses(chs) ==
  IF Len(chs) = 0 THEN 0
  ELSE VersesLength(chs, Len(chs) - 1, 0) + TotalVerses(SubSeq(chs, 1, Len(chs) - 1))

SameCursor == currentChapter' = currentChapter /\ currentVerse' = currentVerse

\* C1: whenever the chapter list is non-empty, 0 <= currentChapter < chapters.length
\* and 0 <= currentVerse < chapters[currentChapter].verses.length, for every
\* fetched chapter list, lists with zero-verse chapters included.
C1_CursorInvariant ==
  Len(chapters) > 0 =>
    /\ 0 <= currentChapter /\ currentChapter < Len(chapters)
    /\ 0 <= currentVerse
    /\ currentVerse < VersesLength(chapters, currentChapter, 0)

\* C2: handleNextVerse on a non-empty chapter list, the cursor standing on a verse:
\* not the last verse of its chapter -> (currentChapter, currentVerse + 1);
\* last verse of a chapter that is not the last -> (currentChapter + 1, 0);
\* last verse of the last chapter -> cursor unchanged.
C2_AdvanceContract ==
  [][(lastOp' = "handleNextVerse" /\ Len(chapters) > 0 /\ CurrentVerseData) =>
       LET last == VersesLength(chapters, currentChapter, 0) - 1
       IN  /\ currentVerse # last =>
                currentChapter' = currentChapter /\ currentVerse' = currentVerse + 1
           /\ (currentVerse = last /\ currentChapter # Len(chapters) - 1) =>
                currentChapter' = currentChapter + 1 /\ currentVerse' = 0
           /\ (currentVerse = last /\ currentChapter = Len(chapters) - 1) =>
                SameCursor]_vars

\* reached: Ch1 = [v1, v2], Ch2 = [v3]; three advances from (0,0) went through
\* the step inside a chapter, the roll-over and the no-op at the end
C2_Witness ==
  /\ lastOp = "handleNextVerse"
  /\ chapters = <<2, 1>>
  /\ walk = 3
  /\ currentChapter = 1 /\ currentVerse = 0

\* C3: handlePreviousVerse on a non-empty chapter list: currentVerse > 0 ->
\* (currentChapter, currentVerse - 1); currentVerse = 0 and currentChapter > 0 ->
\* (currentChapter - 1, index of the last verse of that chapter); at (0,0) the
\* cursor is unchanged, at every call.
C3_RetreatContract ==
  [][(lastOp' = "handlePreviousVerse" /\ Len(chapters) > 0) =>
       /\ currentVerse > 0 =>
            currentChapter' = currentChapter /\ currentVerse' = currentVerse - 1
       /\ (currentVerse = 0 /\ currentChapter > 0
             /\ VersesLength(chapters, currentChapter - 1, 0) >= 1) =>
            /\ currentChapter' = currentChapter - 1
            /\ currentVerse' = VersesLength(chapters, currentChapter - 1, 0) - 1
       /\ (currentVerse = 0 /\ currentChapter = 0) => SameCursor]_vars

\* reached: a retreat from (1,0) rolled over to the last verse of Ch1 = [v1, v2]
C3_Witness ==
  /\ lastOp = "handlePreviousVerse"
  /\ chapters = <<2, 1>>
  /\ currentChapter = 0 /\ currentVerse = 1

\* C4: for every non-empty chapter list, (total verses - 1) advances from (0,0)
\* leave the cursor on the last verse of the last chapter, and every further
\* advance leaves it there.
C4_WalkReachesLastVerse ==
  (Len(chapters) > 0 /\ TotalVerses(chapters) >= 1
     /\ walk >= TotalVerses(chapters) - 1) =>
    /\ currentChapter = Len(chapters) - 1
    /\ currentVerse = VersesLength(chapters, Len(chapters) - 1, 0) - 1

\* C5: two toggles in a row at one cursor position leave the bookmark list
\* exactly as it was: same entries, same order.
C5_ToggleTwiceRestoresList ==
  toggleRun = 2 => bookmarks = toggleBase

\* C5 as amended: two toggles in a row leave the same set of entries; the list is
\* identical when the position was not bookmarked before the first toggle, and
\* otherwise its entry has moved to the end, the others keeping their order.
C5_ToggleTwiceRestoresSet ==
  toggleRun = 2 =>
    LET IsOther(b) == ~(b.chapter = currentChapter /\ b.verse = currentVerse)
        was == \E i \in 1 .. Len(toggleBase) : ~IsOther(toggleBase[i])
    IN  /\ Len(bookmarks) = Len(toggleBase)
        /\ {bookmarks[i] : i \in 1 .. Len(bookmarks)}
             = {toggleBase[i] : i \in 1 .. Len(toggleBase)}
        /\ ~was => bookmarks = toggleBase
        /\ was =>
             /\ ~IsOther(bookmarks[Len(bookmarks)])
             /\ SelectSeq(bookmarks, IsOther) = SelectSeq(toggleBase, IsOther)

\* reached: the position toggled twice was the first of two bookmarks and is now the last
C5_Witness ==
  /\ toggleRun = 2
  /\ Len(toggleBase) = 2
  /\ toggleBase[1] = [chapter |-> currentChapter, verse |-> currentVerse]
  /\ bookmarks = <<toggleBase[2], toggleBase[1]>>

\* C6: toggleBookmark at (c,v) removes the entry (c,v) when the list has one,
\* keeping the others in order, and otherwise appends (c,v) at the end; entries
\* for other pairs are never changed.
C6_ToggleContract ==
  [][lastOp' = "toggleBookmark" =>
       LET IsOther(b) == ~(b.chapter = currentChapter /\ b.verse = currentVerse)
           present == \E i \in 1 .. Len(bookmarks) : ~IsOther(bookmarks[i])
       IN  /\ present =>
                /\ bookmarks' = SelectSeq(bookmarks, IsOther)
                /\ Len(bookmarks') = Len(bookmarks) - 1
           /\ ~present =>
                bookmarks' = bookmarks \o <<[chapter |-> currentChapter,
                                             verse |-> currentVerse]>>
           /\ SelectSeq(bookmarks', IsOther) = SelectSeq(bookmarks, IsOther)]_vars

\* reached: a toggle removed the current position and kept a bookmark of another one
C6_Witness ==
  /\ lastOp = "toggleBookmark"
  /\ lastToast = ToastBookmarkRemoved
  /\ Len(bookmarks) = 1
  /\ bookmarks[1] # [chapter |-> currentChapter, verse |-> currentVerse]

\* C7: no two entries of the bookmark list have the same chapter and verse.
C7_BookmarksAreASet ==
  \A i, j \in 1 .. Len(bookmarks) :
    (bookmarks[i].chapter = bookmarks[j].chapter
       /\ bookmarks[i].verse = bookmarks[j].verse) => i = j

\* reached: a bookmarked position was toggled off and on again in a full list
C7_Witness ==
  /\ toggleRun = 2
  /\ lastToast = ToastBookmarkAdded
  /\ Len(bookmarks) = MaxBookmarks

\* C8: when fetch or JSON parsing rejects, the chapter list stays empty, isLoading
\* becomes false and the view shows the empty-state message, the error toast is
\* raised, the promise of fetchChapters does not reject, and no second fetch is made.
C8_FetchFailure ==
  [][/\ lastOp' \in {"fetchRejects", "jsonRejects"} =>
          /\ chapters' = <<>>
          /\ isLoading' = FALSE
          /\ View' = "No content available. Please try again later."
          /\ lastToast' = ToastLoadFailed
          /\ fetchPromise' = "fulfilled"
     /\ consoleErrors >= 1 =>
          /\ chapters' = <<>>
          /\ isLoading' = FALSE
          /\ View' = "No content available. Please try again later."
          /\ fetchPromise' = "fulfilled"
          /\ fetchCalls' = 1
          /\ fetchPc' = "done"]_vars

\* reached: response.json() rejected and the view shows the empty-state message
C8_Witness ==
  /\ lastOp = "jsonRejects"
  /\ consoleErrors = 1
  /\ chapters = <<>>
  /\ View = "No content available. Please try again later."

\* C9: while the chapter list is empty, handleNextVerse and handlePreviousVerse
\* leave the cursor at (0,0) and raise no error.
C9_EmptyListNoOp ==
  [][(Len(chapters) = 0 /\ lastOp' \in {"handleNextVerse", "handlePreviousVerse"}) =>
       /\ currentChapter = 0 /\ currentVerse = 0
       /\ currentChapter' = 0 /\ currentVerse' = 0
       /\ lastToast' = lastToast
       /\ consoleErrors' = consoleErrors
       /\ fetchPromise' = fetchPromise]_vars

\* reached: an advance was made on the empty list a successful fetch returned
C9_Witness ==
  /\ lastOp = "handleNextVerse"
  /\ chapters = <<>>
  /\ fetchPc = "done"
  /\ consoleErrors = 0

\* C10: addHighlight(text) appends exactly one record (currentChapter,
\* currentVerse, text): the length grows by one and every existing entry keeps
\* its value and position, whatever the text and whatever the list holds.
C10_AddHighlightAppends ==
  [][lastOp' = "addHighlight" =>
       /\ Len(highlights') = Len(highlights) + 1
       /\ SubSeq(highlights', 1, Len(highlights)) = highlights
       /\ highlights'[Len(highlights')].chapter = currentChapter
       /\ highlights'[Len(highlights')].verse = currentVerse
       /\ highlights'[Len(highlights')].text \in Texts]_vars

\* reached: the empty text was appended although the identical record was in the list
C10_Witness ==
  /\ lastOp = "addHighlight"
  /\ Len(highlights) = 2
  /\ highlights[1] = highlights[2]
  /\ highlights[2].text = ""

\* number of verses in the leading chapters that all hold at least one verse
RECURSIVE LeadingVerses(_, _)
LeadingVerses(chs, c) ==
  IF c >= Len(chs) \/ VersesLength(chs, c, 0) = 0 THEN 0
  ELSE VersesLength(chs, c, 0) + LeadingVerses(chs, c + 1)

\* the n-th verse counted from verse 0 of chapter c, as <<chapter, verse>>
RECURSIVE Locate(_, _, _)
Locate(chs, c, n) ==
  IF n < VersesLength(chs, c, 0) THEN <<c, n>>
  ELSE Locate(chs, c + 1, n - VersesLength(chs, c, 0))

Bookmarked(bms, c, v) == \E i \in 1 .. Len(bms) : bms[i].chapter = c /\ bms[i].verse = v

\* n advance events from (0,0), other events interleaved, have moved the cursor by n verses
AdvancesAllCounted ==
  (walk >= 0 /\ walk < LeadingVerses(chapters, 0)) =>
    <<currentChapter, currentVerse>> = Locate(chapters, 0, walk)

\* each toggle of a run has acted on the list the toggle before it left
TogglesAllCounted ==
  /\ toggleRun = 1 =>
       Bookmarked(bookmarks, currentChapter, currentVerse)
         # Bookmarked(toggleBase, currentChapter, currentVerse)
  /\ toggleRun = 2 =>
       Bookmarked(bookmarks, currentChapter, currentVerse)
         = Bookmarked(toggleBase, currentChapter, currentVerse)
  /\ Cardinality({i \in 1 .. Len(bookmarks) :
                    /\ bookmarks[i].chapter = currentChapter
                    /\ bookmarks[i].verse = currentVerse}) <= 1

\* C11: no update is lost in any interleaving of the user events with each other
\* and with the completion of the fetch: n advance events move the cursor by n
\* verses, consecutive toggles at one position cancel and never leave two
\* bookmarks for it, and the completion of the fetch keeps what the user events
\* before it wrote.
C11_NoLostUpdate ==
  [][/\ AdvancesAllCounted'
     /\ TogglesAllCounted'
     /\ lastOp' \in {"jsonResolves", "fetchRejects", "jsonRejects"} =>
          /\ SameCursor
          /\ bookmarks' = bookmarks
          /\ highlights' = highlights
          /\ fontSize' = fontSize]_vars

\* reached: two advances from (0,0) across a chapter boundary, with a highlight
\* added before them and a bookmark toggled between them
C11_Witness ==
  /\ walk = 2
  /\ chapters = <<2, 1>>
  /\ currentChapter = 1 /\ currentVerse = 0
  /\ bookmarks = <<[chapter |-> 0, verse |-> 1]>>
  /\ Len(highlights) = 1
  /\ highlights[1].chapter = 0 /\ highlights[1].verse = 0

\* handlePreviousVerse / handleNextVerse would leave the cursor unchanged
RetreatIsNoOp ==
  PrevCursor(chapters, currentChapter, currentVerse) = <<currentChapter, currentVerse>>

AdvanceIsNoOp ==
  NextCursor(chapters, currentChapter, currentVerse) = <<currentChapter, currentVerse>>

\* C12: in every reachable state the Previous button is disabled if and only if
\* handlePreviousVerse would leave the cursor unchanged, and the Next button is
\* disabled if and only if handleNextVerse would, the empty chapter list and
\* chapters without verses included.
C12_DisabledIffNoOp ==
  /\ PreviousDisabled <=> RetreatIsNoOp
  /\ NextDisabled <=> AdvanceIsNoOp

\* C12 as amended: a disabled button always belongs to an operation that would
\* leave the cursor unchanged; the converse holds whenever the cursor stands on a
\* verse of a non-empty chapter list; with the empty chapter list Previous is
\* disabled and Next is enabled although handleNextVerse is a no-op.
C12_DisabledImpliesNoOp ==
  /\ PreviousDisabled => RetreatIsNoOp
  /\ NextDisabled => AdvanceIsNoOp
  /\ (Len(chapters) > 0 /\ CurrentVerseData) =>
       /\ RetreatIsNoOp => PreviousDisabled
       /\ AdvanceIsNoOp => NextDisabled
  /\ Len(chapters) = 0 => (PreviousDisabled /\ ~NextDisabled /\ AdvanceIsNoOp)

\* reached: the cursor was advanced to the last verse of the last chapter, where
\* Next is disabled and Previous is not
C12_Witness ==
  /\ lastOp = "handleNextVerse"
  /\ chapters = <<1, 2>>
  /\ currentChapter = 1 /\ currentVerse = 1
  /\ NextDisabled /\ ~PreviousDisabled

\* C13: from any reachable cursor, if handleNextVerse changes the cursor then an
\* immediately following handlePreviousVerse restores it, and if
\* handlePreviousVerse changes the cursor then an immediately following
\* handleNextVerse restores it.
C13_AdvanceRetreatInverse ==
  LET here == <<currentChapter, currentVerse>>
      next == NextCursor(chapters, currentChapter, currentVerse)
      prev == PrevCursor(chapters, currentChapter, currentVerse)
  IN  /\ next # here => PrevCursor(chapters, next[1], next[2]) = here
      /\ prev # here => NextCursor(chapters, prev[1], prev[2]) = here

\* the same, for cursors that stand on a verse of a list whose chapters all hold verses
C13_InverseOnFullChapters ==
  (CurrentVerseData /\ \A i \in 0 .. Len(chapters) - 1 : VersesLength(chapters, i, 0) >= 1)
    => C13_AdvanceRetreatInverse

\* C14: handleNextVerse, handlePreviousVerse and the jump to a bookmark leave the
\* bookmark list, the highlight list, the font size and the chapter list
\* unchanged; toggleBookmark changes only the bookmark list; addHighlight changes
\* only the highlight list; once the fetch has stored the chapter list no user
\* operation changes it.
C14_FrameOfOperations ==
  [][/\ lastOp' \in {"handleNextVerse", "handlePreviousVerse", "jumpToBookmark"} =>
          /\ bookmarks' = bookmarks
          /\ highlights' = highlights
          /\ fontSize' = fontSize
          /\ chapters' = chapters
          /\ isLoading' = isLoading
     /\ lastOp' = "toggleBookmark" =>
          /\ bookmarks' # bookmarks
          /\ SameCursor
          /\ highlights' = highlights
          /\ fontSize' = fontSize
          /\ chapters' = chapters
          /\ isLoading' = isLoading
     /\ lastOp' = "addHighlight" =>
          /\ highlights' # highlights
          /\ SameCursor
          /\ bookmarks' = bookmarks
          /\ fontSize' = fontSize
          /\ chapters' = chapters
          /\ isLoading' = isLoading
     /\ lastOp' = "setFontSize" =>
          /\ SameCursor
          /\ bookmarks' = bookmarks
          /\ highlights' = highlights
          /\ chapters' = chapters
          /\ isLoading' = isLoading
     /\ fetchPc = "done" => chapters' = chapters]_vars

\* reached: on a fetched list the cursor was moved by a jump to a bookmark, with
\* a bookmark list, a highlight list and a font size that the jump had to keep
C14_Witness ==
  /\ lastOp = "jumpToBookmark"
  /\ fetchPc = "done" /\ Len(chapters) = 2
  /\ Len(bookmarks) = 2
  /\ Len(highlights) = 1
  /\ fontSize = SliderMax
  /\ currentChapter = 1

\* C15: isLoading starts true; once the fetch settles it becomes false, on the
\* success and on the failure path; once false it never becomes true again; the
\* chapter list is written at most once, by the successful fetch only, so it is
\* non-empty only while isLoading is false.
C15_LoadingLifecycle ==
  /\ isLoading = TRUE
  /\ <>(~isLoading /\ fetchPc = "done")
  /\ [](isLoading <=> fetchPc # "done")
  /\ [][~isLoading => ~isLoading']_vars
  /\ [][chapters' # chapters =>
          (lastOp' = "jsonResolves" /\ chapters = <<>> /\ fetchPc = "awaitJson")]_vars
  /\ [](Len(chapters) > 0 => ~isLoading)

\* reached: the fetch stored a chapter list, loading ended and the user went on reading
C15_Witness ==
  /\ fetchPc = "done"
  /\ ~isLoading
  /\ Len(chapters) > 0
  /\ consoleErrors = 0
  /\ lastOp = "handlePreviousVerse"

====
